---- MODULE Spec2Model ----
(***************************************************************************)
(* The register/arithmetic engine of the HP-16C emulator (src/src/cpu.rs). *)
(*                                                                         *)
(* A u128 is modelled as the set of its set bit positions, a subset of     *)
(* 0..127: TLC's integers are too narrow for 2^128, and the engine's       *)
(* masking, shifting and bitwise operations are set operations on bit      *)
(* positions.  Bits and Val convert between small naturals and bit sets.   *)
(***************************************************************************)
EXTENDS Integers, Sequences, FiniteSets, TLC

\* ------------------------------------------------------------ widths
U128Bits == 128
U8Range == 256
MemRegs == 16
DefaultWordSize == 16
DefaultBase == 16
Wide64 == 64

\* Values below 2^IntBits are also read as TLC integers (Val), so that results
\* can be compared with integer arithmetic.
IntBits == 24

\* ------------------------------------------------------------ bounds
MaxSteps == 3

MaxArithSteps == 4

MaxStackSteps == 5

MaxMemSteps == 5

\* ------------------------------------------------------------ u128 as bit sets
Low(n) == 0 .. (n - 1)

U128Max == Low(U128Bits)

Bits(n) == {i \in 0 .. IntBits : (n \div (2 ^ i)) % 2 = 1}

RECURSIVE Val(_)
Val(v) ==
  IF v = {} THEN 0
  ELSE LET i == CHOOSE k \in v : TRUE IN (2 ^ i) + Val(v \ {i})

IsSmall(v) == v \subseteq Low(IntBits)

BitXor(a, b) == (a \ b) \cup (b \ a)

BitNot(v) == U128Max \ v

\* a < b as unsigned numbers: b holds a differing bit above every differing bit of a.
Less(a, b) == \E i \in b \ a : \A j \in a \ b : j < i

\* v << n and v >> n for a shift count n < 128 (bits shifted past bit 127 are lost).
Shl(v, n) == {i + n : i \in v} \cap U128Max

Shr(v, n) == {i - n : i \in {j \in v : j >= n}}

\* Ripple-carry addition of bits lo..hi-1 with carry c into bit lo, by halving
\* the range (the recursion stays shallow).
RECURSIVE AddRange(_, _, _, _, _)
AddRange(a, b, lo, hi, c) ==
  IF a \cap (lo .. (hi - 1)) = {} /\ b \cap (lo .. (hi - 1)) = {}
  THEN [sum |-> IF c THEN {lo} ELSE {}, carry |-> FALSE]
  ELSE IF hi - lo = 1
  THEN LET ai == lo \in a
           bi == lo \in b
       IN [sum |-> IF (ai # bi) # c THEN {lo} ELSE {},
           carry |-> (ai /\ bi) \/ (ai /\ c) \/ (bi /\ c)]
  ELSE LET mid == (lo + hi) \div 2
           l == AddRange(a, b, lo, mid, c)
           h == AddRange(a, b, mid, hi, l.carry)
       IN [sum |-> l.sum \cup h.sum, carry |-> h.carry]

\* The mathematical sum of two 128-bit numbers, as a bit set within 0..128.
FullSum(a, b) ==
  LET r == AddRange(a, b, 0, U128Bits, FALSE)
  IN IF r.carry THEN r.sum \cup {U128Bits} ELSE r.sum

wrapping_add(a, b) == AddRange(a, b, 0, U128Bits, FALSE).sum

\* Ripple-borrow subtraction a - b of bits lo..hi-1 with borrow bw out of bit lo.
RECURSIVE SubRange(_, _, _, _, _)
SubRange(a, b, lo, hi, bw) ==
  IF a \cap (lo .. (hi - 1)) = {} /\ b \cap (lo .. (hi - 1)) = {}
  THEN [diff |-> IF bw THEN lo .. (hi - 1) ELSE {}, borrow |-> bw]
  ELSE IF hi - lo = 1
  THEN LET ai == lo \in a
           bi == lo \in b
       IN [diff |-> IF (ai # bi) # bw THEN {lo} ELSE {},
           borrow |-> (~ai /\ bi) \/ (~ai /\ bw) \/ (bi /\ bw)]
  ELSE LET mid == (lo + hi) \div 2
           l == SubRange(a, b, lo, mid, bw)
           h == SubRange(a, b, mid, hi, l.borrow)
       IN [diff |-> l.diff \cup h.diff, borrow |-> h.borrow]

\* a - b mod 2^width.
SubWidth(a, b, width) == SubRange(a, b, 0, width, FALSE).diff

wrapping_sub(a, b) == SubWidth(a, b, U128Bits)

\* Shift counts and u8 subtraction without overflow checks (release profile):
\* a shift count is taken modulo the 128 bits, a u8 difference modulo 256.
WrapShift(n) == n % U128Bits

WrapSubU8(a, b) == (a + U8Range - b) % U8Range

\* (1u128 << n) - 1 for n < 128: the n low bits.
LowMask(n) == wrapping_sub(Shl(Bits(1), n), Bits(1))

\* (result, overflow) of a * b at 128 bits: the sum of b << i over the bits i of
\* a in lo..hi-1; overflow iff a partial product or a partial sum leaves the
\* 128 bits, which is iff the full product does.
RECURSIVE MulRange(_, _, _, _)
MulRange(a, b, lo, hi) ==
  IF a \cap (lo .. (hi - 1)) = {} THEN [result |-> {}, overflow |-> FALSE]
  ELSE IF hi - lo = 1
  THEN [result |-> Shl(b, lo), overflow |-> \E j \in b : lo + j >= U128Bits]
  ELSE LET mid == (lo + hi) \div 2
           l == MulRange(a, b, lo, mid)
           h == MulRange(a, b, mid, hi)
           r == AddRange(l.result, h.result, 0, U128Bits, FALSE)
       IN [result |-> r.sum, overflow |-> l.overflow \/ h.overflow \/ r.carry]

overflowing_mul(a, b) == MulRange(a, b, 0, U128Bits)

\* Binary long division n / d (d # 0): the bits hi-1 down to lo of n are brought
\* down into the remainder st.rem one at a time.
RECURSIVE DivRange(_, _, _, _, _)
DivRange(n, d, lo, hi, st) ==
  IF st.rem = {} /\ n \cap (lo .. (hi - 1)) = {} THEN st
  ELSE IF hi - lo = 1
  THEN LET r2 == {k + 1 : k \in st.rem} \cup (IF lo \in n THEN {0} ELSE {})
       IN IF Less(r2, d) THEN [rem |-> r2, q |-> st.q]
          ELSE [rem |-> SubWidth(r2, d, U128Bits + 1), q |-> st.q \cup {lo}]
  ELSE LET mid == (lo + hi) \div 2
       IN DivRange(n, d, lo, mid, DivRange(n, d, mid, hi, st))

Div(n, d) == DivRange(n, d, 0, U128Bits, [rem |-> {}, q |-> {}]).q

\* ------------------------------------------------------------ the engine
\* struct Hp16cCpu; pc, rom and running are never written by the operations below.
new ==
  [x |-> {}, y |-> {}, z |-> {}, t |-> {},
   word_size |-> DefaultWordSize, base |-> DefaultBase,
   carry |-> FALSE, overflow |-> FALSE,
   memory |-> [r \in 0 .. (MemRegs - 1) |-> {}]]

\* Mutant: the result is never masked.
mask_value_unmasked(c, value) == value

\* Mutant: no special case for 128, so the mask is (1 << (128 mod 128)) - 1 = 0.
mask_value_no_128_case(c, value) ==
  IF c.word_size = Wide64 THEN value \cap Low(Wide64)
  ELSE value \cap LowMask(WrapShift(c.word_size))

mask_value(c, value) ==
  IF c.word_size = U128Bits THEN value
  ELSE IF c.word_size = Wide64 THEN value \cap Low(Wide64)
  ELSE value \cap LowMask(c.word_size)

\* Mutant: push does not move z into t.
push_keeps_t(c, value) ==
  LET c2 == [c EXCEPT !.z = c.y]
      c3 == [c2 EXCEPT !.y = c2.x]
  IN [c3 EXCEPT !.x = mask_value(c3, value)]

\* Mutant: the registers are shifted in the wrong order, so x is copied upwards.
push_wrong_order(c, value) ==
  LET c1 == [c EXCEPT !.y = c.x]
      c2 == [c1 EXCEPT !.z = c1.y]
      c3 == [c2 EXCEPT !.t = c2.z]
  IN [c3 EXCEPT !.x = mask_value(c3, value)]

push(c, value) ==
  LET c1 == [c EXCEPT !.t = c.z]
      c2 == [c1 EXCEPT !.z = c1.y]
      c3 == [c2 EXCEPT !.y = c2.x]
  IN [c3 EXCEPT !.x = mask_value(c3, value)]

drop(c) ==
  LET c1 == [c EXCEPT !.x = c.y]
      c2 == [c1 EXCEPT !.y = c1.z]
  IN [c2 EXCEPT !.z = c2.t]

\* Mutant: pop clears t after the shift instead of leaving it.
pop_clears_t(c) ==
  LET result == c.x
      c1 == [c EXCEPT !.x = c.y]
      c2 == [c1 EXCEPT !.y = c1.z]
      c3 == [c2 EXCEPT !.z = c2.t]
  IN [result |-> result, cpu |-> [c3 EXCEPT !.t = {}]]

\* pop returns (the value returned, the engine afterwards).
pop(c) ==
  LET result == c.x
      c1 == [c EXCEPT !.x = c.y]
      c2 == [c1 EXCEPT !.y = c1.z]
      c3 == [c2 EXCEPT !.z = c2.t]
  IN [result |-> result, cpu |-> c3]

\* Mutant: the saved x is forgotten, so y is copied into x and kept.
swap_xy_copies_y(c) == [c EXCEPT !.x = c.y]

swap_xy(c) ==
  LET temp == c.x
      c1 == [c EXCEPT !.x = c.y]
  IN [c1 EXCEPT !.y = temp]

\* Mutant: roll_down rotates x, y, z only and leaves t in place.
roll_down_three_levels(c) ==
  LET temp == c.x
      c1 == [c EXCEPT !.x = c.y]
      c2 == [c1 EXCEPT !.y = c1.z]
  IN [c2 EXCEPT !.z = temp]

roll_down(c) ==
  LET temp == c.x
      c1 == [c EXCEPT !.x = c.y]
      c2 == [c1 EXCEPT !.y = c1.z]
      c3 == [c2 EXCEPT !.z = c2.t]
  IN [c3 EXCEPT !.t = temp]

\* Mutant: roll_up rotates in the direction of roll_down.
roll_up_rotates_down(c) ==
  LET temp == c.x
      c1 == [c EXCEPT !.x = c.y]
      c2 == [c1 EXCEPT !.y = c1.z]
      c3 == [c2 EXCEPT !.z = c2.t]
  IN [c3 EXCEPT !.t = temp]

roll_up(c) ==
  LET temp == c.t
      c1 == [c EXCEPT !.t = c.z]
      c2 == [c1 EXCEPT !.z = c1.y]
      c3 == [c2 EXCEPT !.y = c2.x]
  IN [c3 EXCEPT !.x = temp]

\* Mutant: the sum is stored without masking.
add_unmasked(c) ==
  LET result == wrapping_add(c.x, c.y)
      c1 == [c EXCEPT !.carry = Less(result, c.x) \/ Less(result, c.y)]
      c2 == drop(c1)
  IN [c2 EXCEPT !.x = result]

\* Mutant: carry is the carry out of the configured word size.
add_carry_at_word_size(c) ==
  LET result == wrapping_add(c.x, c.y)
      c1 == [c EXCEPT !.carry = FullSum(c.x, c.y) # mask_value(c, result)]
      c2 == drop(c1)
  IN [c2 EXCEPT !.x = mask_value(c2, result)]

add(c) ==
  LET result == wrapping_add(c.x, c.y)
      c1 == [c EXCEPT !.carry = Less(result, c.x) \/ Less(result, c.y)]
      c2 == drop(c1)
  IN [c2 EXCEPT !.x = mask_value(c2, result)]

\* Mutant: the operands are exchanged (x - y, borrow iff x < y).
subtract_swapped(c) ==
  LET result == wrapping_sub(c.x, c.y)
      c1 == [c EXCEPT !.carry = Less(c.x, c.y)]
      c2 == drop(c1)
  IN [c2 EXCEPT !.x = mask_value(c2, result)]

subtract(c) ==
  LET result == wrapping_sub(c.y, c.x)
      c1 == [c EXCEPT !.carry = Less(c.y, c.x)]
      c2 == drop(c1)
  IN [c2 EXCEPT !.x = mask_value(c2, result)]

\* Mutant: the carry of multiply is taken at the word size instead of at the
\* 128 bits.
multiply_carry_at_word_size(c) ==
  LET m == overflowing_mul(c.x, c.y)
      c1 == [c EXCEPT !.carry = m.overflow \/ ~(m.result \subseteq Low(c.word_size))]
      c2 == drop(c1)
  IN [c2 EXCEPT !.x = mask_value(c2, m.result)]

multiply(c) ==
  LET m == overflowing_mul(c.x, c.y)
      c1 == [c EXCEPT !.carry = m.overflow]
      c2 == drop(c1)
  IN [c2 EXCEPT !.x = mask_value(c2, m.result)]

\* Mutant: division by zero is not flagged.
divide_zero_unflagged(c) ==
  IF c.x # {}
  THEN LET result == Div(c.y, c.x)
           c1 == drop(c)
           c2 == [c1 EXCEPT !.x = mask_value(c1, result)]
       IN [c2 EXCEPT !.carry = FALSE]
  ELSE c

\* Mutant: division by zero drops the stack before flagging.
divide_zero_drops(c) ==
  IF c.x # {}
  THEN LET result == Div(c.y, c.x)
           c1 == drop(c)
           c2 == [c1 EXCEPT !.x = mask_value(c1, result)]
       IN [c2 EXCEPT !.carry = FALSE]
  ELSE [drop(c) EXCEPT !.overflow = TRUE]

\* Mutant: a successful division leaves carry as it was.
divide_keeps_carry(c) ==
  IF c.x # {}
  THEN LET result == Div(c.y, c.x)
           c1 == drop(c)
       IN [c1 EXCEPT !.x = mask_value(c1, result)]
  ELSE [c EXCEPT !.overflow = TRUE]

\* Mutant: a successful division clears overflow.
divide_clears_overflow(c) ==
  IF c.x # {}
  THEN LET result == Div(c.y, c.x)
           c1 == drop(c)
           c2 == [c1 EXCEPT !.x = mask_value(c1, result)]
       IN [c2 EXCEPT !.carry = FALSE, !.overflow = FALSE]
  ELSE [c EXCEPT !.overflow = TRUE]

divide(c) ==
  IF c.x # {}
  THEN LET result == Div(c.y, c.x)
           c1 == drop(c)
           c2 == [c1 EXCEPT !.x = mask_value(c1, result)]
       IN [c2 EXCEPT !.carry = FALSE]
  ELSE [c EXCEPT !.overflow = TRUE]

\* Mutant: and() overwrites x without dropping the stack.
and_without_drop(c) == [c EXCEPT !.x = c.x \cap c.y]

and(c) ==
  LET result == c.x \cap c.y
      c1 == drop(c)
  IN [c1 EXCEPT !.x = result]

or(c) ==
  LET result == c.x \cup c.y
      c1 == drop(c)
  IN [c1 EXCEPT !.x = result]

xor(c) ==
  LET result == BitXor(c.x, c.y)
      c1 == drop(c)
  IN [c1 EXCEPT !.x = result]

\* Mutant: not() clears carry, as a successful division does.
not_clears_carry(c) ==
  [c EXCEPT !.x = mask_value(c, BitNot(c.x)), !.carry = FALSE]

\* Mutant: not() leaves the 128-bit complement unmasked.
not_unmasked(c) == [c EXCEPT !.x = BitNot(c.x)]

not(c) == [c EXCEPT !.x = mask_value(c, BitNot(c.x))]

\* With overflow checks (debug profile, cargo test) shift_left panics on
\* `x << positions` (line 168), on `word_size - positions` and on the `>>` of
\* line 169; the panic precedes every assignment to self.
shift_left_panics(c, positions) ==
  \/ positions >= U128Bits
  \/ positions > c.word_size
  \/ c.word_size - positions >= U128Bits

shift_left(c, positions) ==
  LET result == Shl(c.x, WrapShift(positions))
      c1 == [c EXCEPT !.carry =
               Shr(c.x, WrapShift(WrapSubU8(c.word_size, positions))) # {}]
  IN [c1 EXCEPT !.x = mask_value(c1, result)]

\* With overflow checks shift_right panics on `1 << positions` (line 174).
shift_right_panics(c, positions) == positions >= U128Bits

shift_right(c, positions) ==
  LET c1 == [c EXCEPT !.carry =
               (c.x \cap LowMask(WrapShift(positions))) # {}]
  IN [c1 EXCEPT !.x = Shr(c1.x, WrapShift(positions))]

\* Mutant: store consumes x, dropping the stack.
store_drops(c, register) ==
  IF register < MemRegs
  THEN [drop(c) EXCEPT !.memory[register] = c.x]
  ELSE c

store(c, register) ==
  IF register < MemRegs THEN [c EXCEPT !.memory[register] = c.x] ELSE c

\* Mutant: recall puts the register in x as stored, without masking it.
recall_unmasked(c, register) ==
  IF register < MemRegs
  THEN [push(c, c.memory[register]) EXCEPT !.x = c.memory[register]]
  ELSE c

recall(c, register) ==
  IF register < MemRegs THEN push(c, c.memory[register]) ELSE c

\* Mutant: set_base accepts every base.
set_base_unchecked(c, b) == [c EXCEPT !.base = b]

set_base(c, b) ==
  IF b = 2 \/ b = 8 \/ b = 10 \/ b = 16 THEN [c EXCEPT !.base = b] ELSE c

\* Mutant: set_word_size has no lower bound, so 0 is accepted.
set_word_size_accepts_zero(c, size) ==
  IF size <= U128Bits
  THEN LET c0 == [c EXCEPT !.word_size = size]
           c1 == [c0 EXCEPT !.x = mask_value(c0, c0.x)]
           c2 == [c1 EXCEPT !.y = mask_value(c1, c1.y)]
           c3 == [c2 EXCEPT !.z = mask_value(c2, c2.z)]
       IN [c3 EXCEPT !.t = mask_value(c3, c3.t)]
  ELSE c

\* Mutant: the memory registers are re-masked along with the stack.
set_word_size_masks_memory(c, size) ==
  IF size >= 1 /\ size <= U128Bits
  THEN LET c0 == [c EXCEPT !.word_size = size]
       IN [c0 EXCEPT !.x = mask_value(c0, c0.x),
                     !.y = mask_value(c0, c0.y),
                     !.z = mask_value(c0, c0.z),
                     !.t = mask_value(c0, c0.t),
                     !.memory = [r \in DOMAIN c0.memory |->
                                   mask_value(c0, c0.memory[r])]]
  ELSE c

set_word_size(c, size) ==
  IF size >= 1 /\ size <= U128Bits
  THEN LET c0 == [c EXCEPT !.word_size = size]
           c1 == [c0 EXCEPT !.x = mask_value(c0, c0.x)]
           c2 == [c1 EXCEPT !.y = mask_value(c1, c1.y)]
           c3 == [c2 EXCEPT !.z = mask_value(c2, c2.z)]
       IN [c3 EXCEPT !.t = mask_value(c3, c3.t)]
  ELSE c

\* ------------------------------------------------------------ inputs
\* Values the caller pushes (main.rs parses any u128): 0, 1, 5, 0x81, 0x1FF,
\* 0xDEAD and 2^128 - 1.
PushValues ==
  {Bits(0), Bits(1), Bits(5), Bits(129), Bits(511), Bits(57005), U128Max}

\* u8 arguments of set_word_size, of shift_left / shift_right and of set_base.
WordSizes == {0, 1, 8, 64, 127, 128, 129, 255}

ShiftCounts == {0, 1, 4, 128, 200}

Bases == {2, 7, 8, 10, 16}

\* usize arguments of store and recall.
Registers == {5, 15, 16}

\* The smaller alphabets of the deeper explorations.
ArithValues == {Bits(0), Bits(1), Bits(5), Bits(15), U128Max}

ArithWordSizes == {4, 128}

StackValues == {Bits(1), Bits(2), Bits(3), Bits(4), U128Max}

MemValues == {Bits(57005), Bits(511)}

MemWordSizes == {8, 16}

\* ------------------------------------------------------------ state machine
VARIABLES
  cpu,              \* the Hp16cCpu value
  old,              \* cpu as it was before the last operation
  op,               \* the last operation invoked
  steps,            \* the number of operations invoked since new()
  trace,            \* those operations, oldest first (kept when tracing)
  panicked,         \* the process has aborted on a panic
  divided_by_zero,  \* divide() has been invoked with x = 0 since new()
  overflow_checks,  \* build profile: integer overflow checks compiled in
  tracing,          \* this exploration records the trace
  budget            \* how many operations this exploration invokes

vars ==
  <<cpu, old, op, steps, trace, panicked, divided_by_zero, overflow_checks,
    tracing, budget>>

NoValue == {}

\* One invocation: the operation's name, its u128 argument v or numeric argument
\* n, and the value it returned (pop).
Op(name, v, n, ret) == [name |-> name, v |-> v, n |-> n, ret |-> ret]

\* The engine after new(), in a build with or without overflow checks.
Start(b, tr, checks) ==
  /\ cpu = new
  /\ old = new
  /\ op = Op("new", NoValue, 0, NoValue)
  /\ steps = 0
  /\ trace = <<>>
  /\ panicked = FALSE
  /\ divided_by_zero = FALSE
  /\ overflow_checks \in checks
  /\ tracing = tr
  /\ budget = b

CanCall == steps < budget /\ ~panicked

Called(o) ==
  /\ old' = cpu
  /\ op' = o
  /\ steps' = steps + 1
  /\ trace' = IF tracing THEN Append(trace, o) ELSE trace
  /\ divided_by_zero' = (divided_by_zero \/ (o.name = "divide" /\ cpu.x = {}))
  /\ UNCHANGED <<overflow_checks, tracing, budget>>

\* The operation returns, leaving the engine as `after`.
Return(o, after) == Called(o) /\ cpu' = after /\ UNCHANGED panicked

\* The operation panics before it writes to the engine; the process aborts.
Abort(o) == Called(o) /\ panicked' = TRUE /\ UNCHANGED cpu

Push(values) ==
  \E v \in values : CanCall /\ Return(Op("push", v, 0, NoValue), push(cpu, v))

Pop == CanCall /\ Return(Op("pop", NoValue, 0, pop(cpu).result), pop(cpu).cpu)

Drop == CanCall /\ Return(Op("drop", NoValue, 0, NoValue), drop(cpu))

SwapXY == CanCall /\ Return(Op("swap_xy", NoValue, 0, NoValue), swap_xy(cpu))

RollDown == CanCall /\ Return(Op("roll_down", NoValue, 0, NoValue), roll_down(cpu))

RollUp == CanCall /\ Return(Op("roll_up", NoValue, 0, NoValue), roll_up(cpu))

Add == CanCall /\ Return(Op("add", NoValue, 0, NoValue), add(cpu))

Subtract == CanCall /\ Return(Op("subtract", NoValue, 0, NoValue), subtract(cpu))

Multiply == CanCall /\ Return(Op("multiply", NoValue, 0, NoValue), multiply(cpu))

Divide == CanCall /\ Return(Op("divide", NoValue, 0, NoValue), divide(cpu))

And == CanCall /\ Return(Op("and", NoValue, 0, NoValue), and(cpu))

Or == CanCall /\ Return(Op("or", NoValue, 0, NoValue), or(cpu))

Xor == CanCall /\ Return(Op("xor", NoValue, 0, NoValue), xor(cpu))

Not == CanCall /\ Return(Op("not", NoValue, 0, NoValue), not(cpu))

ShiftLeft ==
  \E n \in ShiftCounts :
    /\ CanCall
    /\ IF overflow_checks /\ shift_left_panics(cpu, n)
       THEN Abort(Op("shift_left", NoValue, n, NoValue))
       ELSE Return(Op("shift_left", NoValue, n, NoValue), shift_left(cpu, n))

ShiftRight ==
  \E n \in ShiftCounts :
    /\ CanCall
    /\ IF overflow_checks /\ shift_right_panics(cpu, n)
       THEN Abort(Op("shift_right", NoValue, n, NoValue))
       ELSE Return(Op("shift_right", NoValue, n, NoValue), shift_right(cpu, n))

Store ==
  \E r \in Registers : CanCall /\ Return(Op("store", NoValue, r, NoValue), store(cpu, r))

Recall ==
  \E r \in Registers : CanCall /\ Return(Op("recall", NoValue, r, NoValue), recall(cpu, r))

SetBase ==
  \E b \in Bases : CanCall /\ Return(Op("set_base", NoValue, b, NoValue), set_base(cpu, b))

SetWordSize(sizes) ==
  \E s \in sizes :
    CanCall /\ Return(Op("set_word_size", NoValue, s, NoValue), set_word_size(cpu, s))

\* Every public operation of the engine, from new(), in either build profile.
Init == Start(MaxSteps, FALSE, BOOLEAN)

Next ==
  \/ Push(PushValues) \/ Pop \/ Drop \/ SwapXY \/ RollDown \/ RollUp
  \/ Add \/ Subtract \/ Multiply \/ Divide
  \/ And \/ Or \/ Xor \/ Not
  \/ ShiftLeft \/ ShiftRight
  \/ Store \/ Recall
  \/ SetBase \/ SetWordSize(WordSizes)

Spec == Init /\ [][Next]_vars

\* The arithmetic operations on pushed operands at several word sizes, explored
\* deeper and with the trace recorded (none of these operations can panic).
ArithInit == Start(MaxArithSteps, TRUE, {TRUE})

ArithNext ==
  \/ Push(ArithValues) \/ SetWordSize(ArithWordSizes)
  \/ Add \/ Subtract \/ Multiply \/ Divide

ArithSpec == ArithInit /\ [][ArithNext]_vars

\* The stack operations, explored deeper and with the trace recorded.
StackInit == Start(MaxStackSteps, TRUE, {TRUE})

StackNext == Push(StackValues) \/ Pop \/ Drop \/ SwapXY \/ RollDown \/ RollUp

StackSpec == StackInit /\ [][StackNext]_vars

\* Memory across word-size changes, five operations deep, traced.
MemInit == Start(MaxMemSteps, TRUE, {TRUE})

MemNext ==
  \/ Push(MemValues)
  \/ Store
  \/ Recall
  \/ SetWordSize(MemWordSizes)

MemSpec == MemInit /\ [][MemNext]_vars

\* ------------------------------------------------------------ reading values
\* v mod 2^w, and v within [0, 2^w - 1].
ModPow2(v, w) == v \cap Low(w)

InWord(v, w) == v \subseteq Low(w)

\* n mod 2^w on TLC integers, for n < 2^(IntBits + 1).
ModInt(n, w) == IF w > IntBits THEN n ELSE n % (2 ^ w)

ValidWordSize(n) == n >= 1 /\ n <= U128Bits

PushOf(v) == Op("push", v, 0, NoValue)

Nullary(name) == Op(name, NoValue, 0, NoValue)

\* ------------------------------------------------------------ claims

\* C1: in every state reachable from new() by the public operations, each of
\* x, y, z, t lies in [0, 2^word_size - 1].
C1_StackWithinWordSize ==
  /\ InWord(cpu.x, cpu.word_size)
  /\ InWord(cpu.y, cpu.word_size)
  /\ InWord(cpu.z, cpu.word_size)
  /\ InWord(cpu.t, cpu.word_size)

\* An unmasked bitwise result at a narrow word size: or() at word size 8 on a
\* non-zero operand.
C1_Witness ==
  /\ op.name = "or"
  /\ old.word_size = 8
  /\ old.x # {}
  /\ cpu.x = old.x \cup old.y

\* C2 as stated: push(0); push(5); divide() on a fresh engine ends with
\* overflow set, x = 0 and y = 5.
C2_AsStated ==
  trace = <<PushOf(Bits(0)), PushOf(Bits(5)), Nullary("divide")>>
    => cpu.overflow /\ cpu.x = Bits(0) /\ cpu.y = Bits(5)

\* C2 amended: push(5); push(0); divide() on a fresh engine ends with overflow
\* set and the stack as the pushes left it, x = 0 and y = 5.
C2_DivideByZeroScenario ==
  trace = <<PushOf(Bits(5)), PushOf(Bits(0)), Nullary("divide")>>
    => /\ cpu.overflow
       /\ cpu.x = Bits(0) /\ cpu.y = Bits(5)
       /\ <<cpu.x, cpu.y, cpu.z, cpu.t>> = <<old.x, old.y, old.z, old.t>>

C2_Witness ==
  /\ trace = <<PushOf(Bits(5)), PushOf(Bits(0)), Nullary("divide")>>
  /\ cpu.overflow

\* C3: divide() with x = 0 sets overflow and leaves x, y, z, t, carry, word_size,
\* base and the 16 memory registers as they were.
C3_DivideByZeroOnlyFlags ==
  (op.name = "divide" /\ old.x = {}) => cpu = [old EXCEPT !.overflow = TRUE]

C3_Witness ==
  /\ op.name = "divide"
  /\ old.x = {}
  /\ old.y # {}
  /\ ~old.overflow
  /\ cpu.overflow

\* C4: no public operation is fatal: whatever the state and the argument, the
\* operation returns and the process does not abort.
C4_NoOperationFatal == ~panicked

\* C5: after set_word_size(w) with w in 1..128, push(v) leaves x = v mod 2^w.
\* Checked on the fresh engine for every w in 1..128, where set_word_size(w)
\* has just returned, for every value v, and where push(v) has returned; values
\* below 2^IntBits are also compared as integers.
C5_PushMasksToWordSize ==
  /\ steps = 0 =>
       \A w \in 1 .. U128Bits : \A v \in PushValues :
         push(set_word_size(cpu, w), v).x = ModPow2(v, w)
  /\ (op.name = "set_word_size" /\ ValidWordSize(op.n)) =>
       \A v \in PushValues :
         /\ push(cpu, v).x = ModPow2(v, op.n)
         /\ IsSmall(v) => Val(push(cpu, v).x) = ModInt(Val(v), op.n)
  /\ op.name = "push" =>
       /\ cpu.x = ModPow2(op.v, old.word_size)
       /\ IsSmall(op.v) => Val(cpu.x) = ModInt(Val(op.v), old.word_size)

\* test_word_size_masking: set_word_size(8) on a fresh engine, then push(0x1FF).
C5_Witness ==
  /\ op.name = "push"
  /\ old = set_word_size(new, 8)
  /\ op.v = Bits(511)
  /\ cpu.x = Bits(255)

\* The last n operations of the trace.
LastOps(n) == SubSeq(trace, Len(trace) - n + 1, Len(trace))

\* C6: push(v) moves z into t, y into z, x into y and puts mask(v) in x, the old
\* t being discarded; so four pushes of values a, b, c, d within the word size,
\* from any state, leave (t, z, y, x) = (a, b, c, d).
C6_PushShiftsStack ==
  /\ op.name = "push" =>
       /\ cpu.t = old.z /\ cpu.z = old.y /\ cpu.y = old.x
       /\ cpu.x = ModPow2(op.v, old.word_size)
  /\ (Len(trace) >= 4 /\ \A i \in 1 .. 4 : LastOps(4)[i].name = "push") =>
       LET a == LastOps(4)[1].v
           b == LastOps(4)[2].v
           c == LastOps(4)[3].v
           d == LastOps(4)[4].v
       IN (\A v \in {a, b, c, d} : InWord(v, cpu.word_size))
            => <<cpu.t, cpu.z, cpu.y, cpu.x>> = <<a, b, c, d>>

\* Four pushes of distinct values onto a stack that already held a non-zero t.
C6_Witness ==
  /\ Len(trace) >= 4
  /\ \A i \in 1 .. 4 : LastOps(4)[i].name = "push"
  /\ <<cpu.t, cpu.z, cpu.y, cpu.x>> = <<Bits(1), Bits(2), Bits(3), Bits(4)>>
  /\ old.t # {}

\* C7: pop() returns the old x and leaves x = old y, y = old z, z = old t and t
\* as it was; drop() leaves the same state as pop(); neither changes carry,
\* overflow, memory, word_size or base.
C7_PopAndDrop ==
  /\ op.name = "pop" =>
       /\ op.ret = old.x
       /\ cpu = [old EXCEPT !.x = old.y, !.y = old.z, !.z = old.t]
       /\ cpu.z = cpu.t
       /\ cpu = drop(old)
  /\ op.name = "drop" =>
       /\ cpu = [old EXCEPT !.x = old.y, !.y = old.z, !.z = old.t]
       /\ cpu = pop(old).cpu

\* pop() with a non-zero t above a different z: afterwards t appears twice.
C7_Witness ==
  /\ op.name = "pop"
  /\ old.t # {}
  /\ old.t # old.z
  /\ cpu.z = old.t /\ cpu.t = old.t

\* pop() of a non-zero x with carry set.
C7_WitnessCarry ==
  /\ op.name = "pop"
  /\ old.carry
  /\ op.ret # {}
  /\ cpu.carry

\* The operands of the last operation are below 2^IntBits.
SmallOperands == IsSmall(old.x) /\ IsSmall(old.y)

\* The stack below the two operands has dropped by one.
Dropped == cpu.y = old.z /\ cpu.z = old.t /\ cpu.t = old.t

\* C8: add() leaves x = (old x + old y) mod 2^word_size, y = old z, z = old t
\* and t = old t.
C8_AddWrapsToWordSize ==
  op.name = "add" =>
    /\ cpu.x = ModPow2(FullSum(old.x, old.y), old.word_size)
    /\ SmallOperands =>
         Val(cpu.x) = ModInt(Val(old.x) + Val(old.y), old.word_size)
    /\ Dropped

\* add() of two non-zero operands whose sum leaves the word size, above a
\* non-zero z.
C8_Witness ==
  /\ op.name = "add"
  /\ old.x # {} /\ old.y # {} /\ old.z # {}
  /\ ~InWord(FullSum(old.x, old.y), old.word_size)

\* C9: the carry of add() is the carry out of the 128 bits, not of the word
\* size: carry iff old x + old y >= 2^128, hence no carry at a word size below
\* 128 even when the sum leaves the word size.
C9_AddCarryIsNative ==
  op.name = "add" =>
    /\ cpu.carry <=> (U128Bits \in FullSum(old.x, old.y))
    /\ old.word_size < U128Bits => ~cpu.carry

\* Word size 4, 0xF + 0x1: the sum leaves the 4 bits, carry stays false.
C9_Witness ==
  /\ op.name = "add"
  /\ old.word_size = 4
  /\ old.y = Bits(15) /\ old.x = Bits(1)
  /\ cpu.x = Bits(0)
  /\ ~cpu.carry

\* Word size 128, (2^128 - 1) + 1: the sum leaves the 128 bits, carry is set.
C9_WitnessCarry ==
  /\ op.name = "add"
  /\ old.word_size = U128Bits
  /\ old.y = U128Max /\ old.x = Bits(1)
  /\ cpu.x = Bits(0)
  /\ cpu.carry

\* C10: subtract() leaves x = (old y - old x) mod 2^word_size, sets carry iff
\* old y < old x, and drops the stack.  The difference is the one value within
\* the word size that, added to old x, gives old y modulo 2^word_size.
C10_SubtractBorrows ==
  op.name = "subtract" =>
    /\ InWord(cpu.x, old.word_size)
    /\ ModPow2(wrapping_add(cpu.x, old.x), old.word_size) = old.y
    /\ cpu.carry <=> Less(old.y, old.x)
    /\ (SmallOperands /\ old.word_size <= IntBits) =>
         /\ Val(cpu.x) =
              (Val(old.y) + (2 ^ old.word_size) - Val(old.x)) % (2 ^ old.word_size)
         /\ cpu.carry <=> (Val(old.y) < Val(old.x))
    /\ Dropped

\* A borrow: 1 - 15 above a non-zero z.
C10_Witness ==
  /\ op.name = "subtract"
  /\ old.y = Bits(1) /\ old.x = Bits(15)
  /\ old.z # {}
  /\ cpu.carry

\* The mathematical product of two 128-bit numbers, as a bit set within 0..255:
\* the sum over the bits i of a in lo..hi-1 of b * 2^i, added at 256 bits.
RECURSIVE ProductRange(_, _, _, _)
ProductRange(a, b, lo, hi) ==
  IF a \cap (lo .. (hi - 1)) = {} THEN {}
  ELSE IF hi - lo = 1 THEN {j + lo : j \in b}
  ELSE LET mid == (lo + hi) \div 2
       IN AddRange(ProductRange(a, b, lo, mid), ProductRange(a, b, mid, hi),
                   0, 2 * U128Bits, FALSE).sum

FullProduct(a, b) == ProductRange(a, b, 0, U128Bits)

\* Both operands of the last operation are below 2^(IntBits / 2), so that their
\* product is below 2^IntBits.
HalfSmallOperands ==
  old.x \subseteq Low(IntBits \div 2) /\ old.y \subseteq Low(IntBits \div 2)

\* C11: multiply() leaves x = (old x * old y) mod 2^word_size and drops the
\* stack; carry is set iff the full product old x * old y is 2^128 or more,
\* whether or not it fits the word size.
C11_MultiplyCarryIsNative ==
  op.name = "multiply" =>
    /\ cpu.x = ModPow2(FullProduct(old.x, old.y), old.word_size)
    /\ cpu.carry <=> (FullProduct(old.x, old.y) \ U128Max # {})
    /\ HalfSmallOperands =>
         Val(cpu.x) = ModInt(Val(old.x) * Val(old.y), old.word_size)
    /\ Dropped

\* Word size 128, (2^128 - 1) * 5: the product leaves the 128 bits, carry is set.
C11_Witness ==
  /\ op.name = "multiply"
  /\ old.word_size = U128Bits
  /\ old.y = U128Max /\ old.x = Bits(5)
  /\ cpu.carry
  /\ cpu.x = wrapping_sub(U128Max, Bits(4))

\* Word size 4, 0xF * 0xF = 0xE1: the product leaves the 4 bits, carry stays
\* false and x = 1.
C11_WitnessNoCarry ==
  /\ op.name = "multiply"
  /\ old.word_size = 4
  /\ old.y = Bits(15) /\ old.x = Bits(15)
  /\ cpu.x = Bits(1)
  /\ ~cpu.carry

\* C12: divide() with x # 0 leaves x = floor(old y / old x), y = old z,
\* z = old t and t = old t, clears carry and leaves overflow (and word_size, base
\* and memory) as they were.  The quotient q is the one number with
\* q * old x <= old y < q * old x + old x.
C12_DivideTruncates ==
  (op.name = "divide" /\ old.x # {}) =>
    LET p == FullProduct(cpu.x, old.x)
    IN /\ p \subseteq U128Max
       /\ ~Less(old.y, p)
       /\ Less(wrapping_sub(old.y, p), old.x)
       /\ SmallOperands => Val(cpu.x) = Val(old.y) \div Val(old.x)
       /\ cpu.carry = FALSE
       /\ cpu.overflow = old.overflow
       /\ cpu = [old EXCEPT !.x = cpu.x, !.y = old.z, !.z = old.t, !.carry = FALSE]

\* 0xDEAD / 0x1FF = 111, remainder 284.
C12_Witness ==
  /\ op.name = "divide"
  /\ old.y = Bits(57005) /\ old.x = Bits(511)
  /\ cpu.x = Bits(111)

\* A successful division with carry set beforehand.
C12_WitnessCarry ==
  /\ op.name = "divide"
  /\ old.x # {}
  /\ old.carry
  /\ ~cpu.carry

ShiftLeftInRange == op.name = "shift_left" /\ op.n < old.word_size

\* What C14 says of shift_left(n): the call returns, carry is set iff a bit of
\* old x lies at or above bit word_size - n, x = (old x * 2^n) mod 2^word_size,
\* and y, z, t are as they were.
ShiftLeftAsSpecified ==
  /\ ~panicked
  /\ cpu.carry <=> (\E i \in old.x : i >= old.word_size - op.n)
  /\ cpu.x = ModPow2({i + op.n : i \in old.x}, old.word_size)
  /\ IsSmall({i + op.n : i \in old.x}) =>
       Val(cpu.x) = ModInt(Val(old.x) * (2 ^ op.n), old.word_size)
  /\ <<cpu.y, cpu.z, cpu.t>> = <<old.y, old.z, old.t>>

\* C14 as stated: for every n with 0 <= n < word_size, shift_left(n) sets carry
\* iff old x >> (word_size - n) is not 0, leaves x = (old x * 2^n) mod
\* 2^word_size and leaves y, z, t unchanged.
C14_ShiftLeftInRange == ShiftLeftInRange => ShiftLeftAsSpecified

\* The same for every case but shift_left(0) at word size 128.
C14_ShiftLeftBelowFullWidth ==
  (ShiftLeftInRange /\ ~(op.n = 0 /\ old.word_size = U128Bits))
    => ShiftLeftAsSpecified

\* The example of C14: word size 8, x = 0x81, shift_left(1) sets carry and
\* leaves x = 0x02.
C14_Example ==
  /\ op.name = "shift_left" /\ op.n = 1
  /\ old.word_size = 8 /\ old.x = Bits(129)
  /\ cpu.carry /\ cpu.x = Bits(2)

\* shift_left(0) of a non-zero x at word size 128.
C14_FullWidthZero ==
  /\ op.name = "shift_left" /\ op.n = 0
  /\ old.word_size = U128Bits /\ old.x # {}

\* What C15 says of shift_right(n): the call returns, carry is set iff a bit of
\* old x lies below bit n, x = floor(old x / 2^n), and y, z, t, overflow and
\* memory are as they were.
ShiftRightAsSpecified ==
  /\ ~panicked
  /\ cpu.carry <=> (\E i \in old.x : i < op.n)
  /\ cpu.x = {i - op.n : i \in {j \in old.x : j >= op.n}}
  /\ (IsSmall(old.x) /\ op.n <= IntBits) =>
       /\ Val(cpu.x) = Val(old.x) \div (2 ^ op.n)
       /\ cpu.carry <=> (Val(old.x) % (2 ^ op.n) # 0)
  /\ <<cpu.y, cpu.z, cpu.t>> = <<old.y, old.z, old.t>>
  /\ cpu.overflow = old.overflow
  /\ cpu.memory = old.memory

\* C15 as stated: shift_right(n) sets carry iff old x mod 2^n is not 0, leaves
\* x = floor(old x / 2^n) and leaves y, z, t, overflow and memory unchanged.
C15_ShiftRight == op.name = "shift_right" => ShiftRightAsSpecified

\* The same for the shift counts below 128.
C15_ShiftRightBelow128 ==
  (op.name = "shift_right" /\ op.n < U128Bits) => ShiftRightAsSpecified

\* 0x81 >> 4 = 8 with a bit shifted out: carry is set.
C15_Example ==
  /\ op.name = "shift_right" /\ op.n = 4
  /\ old.x = Bits(129)
  /\ cpu.carry /\ cpu.x = Bits(8)

\* shift_right(128) of a non-zero x returns with x and carry as they were.
C15_Shift128 ==
  /\ op.name = "shift_right" /\ op.n = U128Bits
  /\ old.x # {}
  /\ ~panicked
  /\ cpu.x = old.x /\ ~cpu.carry

\* C16: set_word_size(s) with s in 1..128 sets word_size to s and replaces each
\* of x, y, z, t by its value mod 2^s, leaving the 16 memory registers, base,
\* carry and overflow as they were; with s = 0 or s in 129..255 the whole
\* engine is as it was.
C16_SetWordSize ==
  op.name = "set_word_size" =>
    IF ValidWordSize(op.n)
    THEN /\ cpu = [old EXCEPT !.word_size = op.n,
                              !.x = ModPow2(old.x, op.n),
                              !.y = ModPow2(old.y, op.n),
                              !.z = ModPow2(old.z, op.n),
                              !.t = ModPow2(old.t, op.n)]
         /\ IsSmall(old.x) => Val(cpu.x) = ModInt(Val(old.x), op.n)
         /\ cpu.memory = old.memory /\ cpu.base = old.base
         /\ cpu.carry = old.carry /\ cpu.overflow = old.overflow
    ELSE cpu = old

\* set_word_size(8) with x = 0xDEAD also held in a memory register: x becomes
\* 0xAD, the register keeps 0xDEAD.
C16_Witness ==
  /\ op.name = "set_word_size" /\ op.n = 8
  /\ old.x = Bits(57005)
  /\ cpu.x = Bits(173)
  /\ cpu.memory[5] = Bits(57005)

\* set_word_size(255) on an engine that differs from new().
C16_WitnessIgnored ==
  /\ op.name = "set_word_size" /\ op.n = 255
  /\ old.word_size = 8 /\ old.x # {}
  /\ cpu = old

\* The trace is push(v); store(r); set_word_size(a); set_word_size(b);
\* recall(r) on a fresh engine, with r a memory register.
StoreResizeRecall ==
  /\ Len(trace) = 5
  /\ trace[1].name = "push"
  /\ trace[2].name = "store" /\ trace[2].n < MemRegs
  /\ trace[3].name = "set_word_size" /\ ValidWordSize(trace[3].n)
  /\ trace[4].name = "set_word_size" /\ ValidWordSize(trace[4].n)
  /\ trace[5].name = "recall" /\ trace[5].n = trace[2].n

\* C17: a memory register keeps the value stored in it across word-size
\* changes, and recall(r) with r in 0..15 pushes memory[r] mod 2^word_size
\* without modifying memory[r].  So after push(v); store(r); set_word_size(a);
\* set_word_size(b); recall(r) on a fresh engine (word size 16) the register
\* holds v mod 2^16, x holds that mod 2^b, and y, the stack register that
\* went through both changes, holds it mod 2^a mod 2^b.
C17_MemoryOutlivesWordSize ==
  /\ op.name = "set_word_size" => cpu.memory = old.memory
  /\ (op.name = "recall" /\ op.n < MemRegs) =>
       /\ cpu.x = ModPow2(old.memory[op.n], old.word_size)
       /\ <<cpu.y, cpu.z, cpu.t>> = <<old.x, old.y, old.z>>
       /\ cpu.memory = old.memory
  /\ StoreResizeRecall =>
       LET v == ModPow2(trace[1].v, DefaultWordSize)
           a == trace[3].n
           b == trace[4].n
       IN /\ cpu.memory[trace[2].n] = v
          /\ cpu.x = ModPow2(v, b)
          /\ cpu.y = ModPow2(ModPow2(v, a), b)

\* The example of C17: 0xDEAD stored at word size 16 and recalled after
\* set_word_size(8); set_word_size(16) is 0xDEAD, the stack register is 0xAD.
C17_Witness ==
  /\ trace = <<PushOf(Bits(57005)), Op("store", NoValue, 5, NoValue),
               Op("set_word_size", NoValue, 8, NoValue),
               Op("set_word_size", NoValue, 16, NoValue),
               Op("recall", NoValue, 5, NoValue)>>
  /\ cpu.x = Bits(57005)
  /\ cpu.y = Bits(173)
  /\ cpu.memory[5] = Bits(57005)

\* recall of a register that holds more than the word size: 0xDEAD recalled
\* at word size 8 is 0xAD and the register keeps 0xDEAD.
C17_WitnessNarrow ==
  /\ op.name = "recall" /\ op.n = 5
  /\ old.word_size = 8
  /\ old.memory[5] = Bits(57005)
  /\ cpu.x = Bits(173)
  /\ cpu.memory[5] = Bits(57005)

\* C18: store(r) with r in 0..15 sets memory[r] to x and changes nothing else
\* (stack, flags, word_size, base and the other 15 registers); store(r) and
\* recall(r) with r >= 16 leave the whole engine as it was.
C18_StoreOnlyWritesRegister ==
  /\ op.name = "store" =>
       IF op.n < MemRegs
       THEN /\ cpu.memory[op.n] = old.x
            /\ \A r \in 0 .. (MemRegs - 1) :
                 r # op.n => cpu.memory[r] = old.memory[r]
            /\ cpu = [old EXCEPT !.memory = cpu.memory]
       ELSE cpu = old
  /\ (op.name = "recall" /\ op.n >= MemRegs) => cpu = old

\* store(5) of 0xDEAD into an empty register while register 15 is in use.
C18_Witness ==
  /\ op.name = "store" /\ op.n = 5
  /\ old.x = Bits(57005)
  /\ old.memory[5] = {} /\ old.memory[15] # {}
  /\ cpu.memory[5] = Bits(57005)
  /\ cpu.memory[15] = old.memory[15]
  /\ cpu.x = Bits(57005)

\* store(16) and recall(16) on an engine with a non-zero x and register.
C18_WitnessIgnored ==
  /\ op.name \in {"store", "recall"} /\ op.n = 16
  /\ old.x # {} /\ old.memory[5] # {}
  /\ cpu = old

\* Bit i of the number n.
BitOf(n, i) == (n \div (2 ^ i)) % 2 = 1

\* C19: and(), or(), xor() leave x = old x AND / OR / XOR old y, bit by bit,
\* with y = old z, z = old t, t = old t and the rest of the engine as it was;
\* the result lies within the word size although it is not masked.
C19_BitwiseOperations ==
  op.name \in {"and", "or", "xor"} =>
    /\ \A i \in 0 .. (U128Bits - 1) :
         i \in cpu.x <=>
           CASE op.name = "and" -> i \in old.x /\ i \in old.y
             [] op.name = "or" -> i \in old.x \/ i \in old.y
             [] op.name = "xor" -> (i \in old.x) # (i \in old.y)
    /\ SmallOperands =>
         \A i \in 0 .. (IntBits - 1) :
           BitOf(Val(cpu.x), i) <=>
             CASE op.name = "and" -> BitOf(Val(old.x), i) /\ BitOf(Val(old.y), i)
               [] op.name = "or" -> BitOf(Val(old.x), i) \/ BitOf(Val(old.y), i)
               [] op.name = "xor" -> BitOf(Val(old.x), i) # BitOf(Val(old.y), i)
    /\ Dropped
    /\ cpu = [old EXCEPT !.x = cpu.x, !.y = old.z, !.z = old.t]
    /\ InWord(cpu.x, cpu.word_size)

\* 0xDEAD xor 0x1FF = 0xDF52.
C19_Witness ==
  /\ op.name = "xor"
  /\ old.y = Bits(57005) /\ old.x = Bits(511)
  /\ cpu.x = Bits(57170)

\* 0xDEAD and 0x1FF = 0xAD; 0xDEAD or 0x1FF = 0xDFFF.
C19_WitnessAndOr ==
  /\ old.y = Bits(57005) /\ old.x = Bits(511)
  /\ \/ op.name = "and" /\ cpu.x = Bits(173)
     \/ op.name = "or" /\ cpu.x = Bits(57343)

\* The operations that are neither arithmetic nor shifts.
FlagPreserving ==
  {"push", "pop", "drop", "swap_xy", "roll_down", "roll_up", "and", "or",
   "xor", "not", "store", "recall", "set_base", "set_word_size"}

\* C20: push, pop, drop, swap_xy, roll_down, roll_up, and, or, xor, not, store,
\* recall, set_base and set_word_size leave carry and overflow as they were.
C20_FlagsOnlyByArithmeticAndShifts ==
  op.name \in FlagPreserving =>
    /\ cpu.carry = old.carry
    /\ cpu.overflow = old.overflow

\* not() with carry set by the operation before it.
C20_Witness ==
  /\ op.name = "not"
  /\ old.carry
  /\ cpu.carry
  /\ cpu.x # old.x

\* One of the operations, other than push, with overflow set.
C20_WitnessOverflow ==
  /\ op.name \in FlagPreserving \ {"push"}
  /\ steps = MaxSteps
  /\ old.overflow
  /\ cpu.overflow

\* C21: not() leaves x = (2^word_size - 1) - old x, the complement of old x
\* within the word size, and leaves y, z, t (and the rest of the engine) as
\* they were.  The complement is the one value within the word size whose sum
\* with old x is 2^word_size - 1.
C21_NotComplementsWithinWordSize ==
  op.name = "not" =>
    /\ cpu.x = Low(old.word_size) \ old.x
    /\ InWord(cpu.x, old.word_size)
    /\ FullSum(cpu.x, old.x) = Low(old.word_size)
    /\ old.word_size <= IntBits =>
         Val(cpu.x) = ((2 ^ old.word_size) - 1) - Val(old.x)
    /\ <<cpu.y, cpu.z, cpu.t>> = <<old.y, old.z, old.t>>
    /\ cpu = [old EXCEPT !.x = cpu.x]

\* The example of the help text: 0xFF at word size 8 becomes 0.
C21_Witness ==
  /\ op.name = "not"
  /\ old.word_size = 8
  /\ old.x = Bits(255)
  /\ cpu.x = Bits(0)

\* not() of 0xDEAD at word size 16 above a non-zero y: 0x2152.
C21_WitnessWide ==
  /\ op.name = "not"
  /\ old.word_size = 16
  /\ old.x = Bits(57005) /\ old.y # {}
  /\ cpu.x = Bits(8530)

\* C22: roll_down() maps (x, y, z, t) to (y, z, t, x) and roll_up() maps it to
\* (t, x, y, z), changing nothing else; from any state four roll_down(), and
\* four roll_up(), give the state back.
C22_RollsCycleInFour ==
  /\ op.name = "roll_down" =>
       cpu = [old EXCEPT !.x = old.y, !.y = old.z, !.z = old.t, !.t = old.x]
  /\ op.name = "roll_up" =>
       cpu = [old EXCEPT !.x = old.t, !.y = old.x, !.z = old.y, !.t = old.z]
  /\ roll_down(roll_down(roll_down(roll_down(cpu)))) = cpu
  /\ roll_up(roll_up(roll_up(roll_up(cpu)))) = cpu
  /\ (Len(trace) >= 4 /\ \A i \in 1 .. 4 : LastOps(4)[i].name = "roll_down")
       => cpu = roll_up(roll_up(roll_up(old)))
  /\ (Len(trace) >= 4 /\ \A i \in 1 .. 4 : LastOps(4)[i].name = "roll_up")
       => cpu = roll_down(roll_down(roll_down(old)))

\* roll_down() of a stack of four different values.
C22_Witness ==
  /\ op.name = "roll_down"
  /\ <<old.x, old.y, old.z, old.t>> = <<Bits(4), Bits(3), Bits(2), Bits(1)>>
  /\ <<cpu.x, cpu.y, cpu.z, cpu.t>> = <<Bits(3), Bits(2), Bits(1), Bits(4)>>

\* roll_up() of a stack of four different values.
C22_WitnessUp ==
  /\ op.name = "roll_up"
  /\ <<old.x, old.y, old.z, old.t>> = <<Bits(4), Bits(3), Bits(2), Bits(1)>>
  /\ <<cpu.x, cpu.y, cpu.z, cpu.t>> = <<Bits(1), Bits(4), Bits(3), Bits(2)>>

\* Four roll_down() in a row on a stack that is not uniform.
C22_WitnessFour ==
  /\ Len(trace) >= 4
  /\ \A i \in 1 .. 4 : LastOps(4)[i].name = "roll_down"
  /\ cpu.x # cpu.y

\* C23: swap_xy() exchanges x and y and leaves z, t (and the rest of the
\* engine) as they were; a second swap_xy() restores the state before the
\* first.
C23_SwapIsInvolution ==
  /\ op.name = "swap_xy" =>
       /\ cpu = [old EXCEPT !.x = old.y, !.y = old.x]
       /\ <<cpu.z, cpu.t>> = <<old.z, old.t>>
       /\ swap_xy(cpu) = old
  /\ swap_xy(swap_xy(cpu)) = cpu
  /\ (Len(trace) >= 2 /\ \A i \in 1 .. 2 : LastOps(2)[i].name = "swap_xy")
       => <<cpu.x, cpu.y>> = <<old.y, old.x>> /\ swap_xy(old) = cpu

\* swap_xy() of a stack of four different values.
C23_Witness ==
  /\ op.name = "swap_xy"
  /\ <<old.x, old.y, old.z, old.t>> = <<Bits(4), Bits(3), Bits(2), Bits(1)>>
  /\ <<cpu.x, cpu.y, cpu.z, cpu.t>> = <<Bits(3), Bits(4), Bits(2), Bits(1)>>

\* Two swap_xy() in a row on different x and y.
C23_WitnessTwice ==
  /\ Len(trace) >= 2
  /\ \A i \in 1 .. 2 : LastOps(2)[i].name = "swap_xy"
  /\ cpu.x # cpu.y
  /\ cpu.x = old.y

\* The bases set_base accepts according to C24.
ValidBases == {2, 8, 10, 16}

\* C24: set_base(b) sets base to b when b is 2, 8, 10 or 16 and does nothing
\* otherwise; either way x, y, z, t, memory, word_size, carry and overflow are
\* as they were.
C24_SetBaseOnlyChangesBase ==
  op.name = "set_base" =>
    /\ IF op.n \in ValidBases
       THEN cpu = [old EXCEPT !.base = op.n]
       ELSE cpu = old
    /\ <<cpu.x, cpu.y, cpu.z, cpu.t>> = <<old.x, old.y, old.z, old.t>>
    /\ cpu.memory = old.memory
    /\ cpu.word_size = old.word_size
    /\ cpu.carry = old.carry /\ cpu.overflow = old.overflow

\* set_base(2) with 0xDEAD in x and in a memory register.
C24_Witness ==
  /\ op.name = "set_base" /\ op.n = 2
  /\ old.base = 16
  /\ cpu.base = 2
  /\ cpu.x = Bits(57005)
  /\ cpu.memory[5] = Bits(57005)

\* set_base(7) after set_base(8): the base stays 8.
C24_WitnessIgnored ==
  /\ op.name = "set_base" /\ op.n = 7
  /\ old.base = 8
  /\ cpu.base = 8
  /\ cpu.x # {}

\* C25: the engine starts with word_size = 16, base = 16, x = y = z = t = 0,
\* carry and overflow false and the 16 memory registers zero; in every state
\* reachable by the operations word_size is in 1..128 and base is 2, 8, 10
\* or 16.
C25_InitialStateAndConfiguration ==
  /\ steps = 0 =>
       /\ cpu.word_size = 16 /\ cpu.base = 16
       /\ <<cpu.x, cpu.y, cpu.z, cpu.t>> = <<Bits(0), Bits(0), Bits(0), Bits(0)>>
       /\ ~cpu.carry /\ ~cpu.overflow
       /\ DOMAIN cpu.memory = 0 .. 15
       /\ \A r \in 0 .. 15 : cpu.memory[r] = Bits(0)
  /\ cpu.word_size \in 1 .. 128
  /\ cpu.base \in {2, 8, 10, 16}

\* set_word_size(0) refused after word size and base were changed.
C25_Witness ==
  /\ op.name = "set_word_size" /\ op.n = 0
  /\ old.word_size = 1 /\ old.base = 2
  /\ cpu.word_size = 1 /\ cpu.base = 2

\* set_base(7) refused at word size 128.
C25_WitnessBase ==
  /\ op.name = "set_base" /\ op.n = 7
  /\ cpu.word_size = 128
  /\ cpu.base = 16

\* The engine after one stack operation o of the trace.
StackApply(c, o) ==
  CASE o.name = "push" -> push(c, o.v)
    [] o.name = "pop" -> pop(c).cpu
    [] o.name = "drop" -> drop(c)
    [] o.name = "swap_xy" -> swap_xy(c)
    [] o.name = "roll_down" -> roll_down(c)
    [] o.name = "roll_up" -> roll_up(c)
    [] OTHER -> c

\* The engine after the first n operations of the trace, from new().
RECURSIVE Replay(_)
Replay(n) == IF n = 0 THEN new ELSE StackApply(Replay(n - 1), trace[n])

\* The last two operations invoked are push(v) and pop().
PushThenPop ==
  /\ Len(trace) >= 2
  /\ LastOps(2)[1].name = "push"
  /\ LastOps(2)[2].name = "pop"

\* C26: from any state push(v) followed by pop() returns v mod 2^word_size and
\* restores x, y and z, but leaves t equal to the z before the push: the t
\* before the push is lost, and the state is restored only if t was equal to
\* z.  Checked by applying push and pop to every state from which operations
\* are still invoked, and on every run whose last two operations are push(v)
\* and pop(), against the replayed state before the push.
C26_PushPopLosesT ==
  /\ CanCall =>
       \A v \in StackValues :
         LET p == pop(push(cpu, v))
         IN /\ p.result = ModPow2(v, cpu.word_size)
            /\ p.cpu = [cpu EXCEPT !.t = cpu.z]
            /\ (p.cpu = cpu) <=> (cpu.t = cpu.z)
  /\ PushThenPop =>
       \A before \in {Replay(Len(trace) - 2)} :
          /\ op.ret = ModPow2(LastOps(2)[1].v, before.word_size)
          /\ <<cpu.x, cpu.y, cpu.z>> = <<before.x, before.y, before.z>>
          /\ cpu.t = before.z
          /\ cpu = [before EXCEPT !.t = before.z]
          /\ (cpu = before) <=> (before.t = before.z)

\* A full stack of four different non-zero values with an operation left.
C26_WitnessFullStack ==
  /\ CanCall
  /\ <<cpu.x, cpu.y, cpu.z, cpu.t>> = <<Bits(4), Bits(3), Bits(2), Bits(1)>>
  /\ pop(push(cpu, U128Max)).cpu.t = Bits(2)

\* push(4); pop() on the stack (x, y, z, t) = (3, 2, 1, 0): pop returns 4 and
\* the stack ends as (3, 2, 1, 1).
C26_Witness ==
  /\ trace = <<PushOf(Bits(1)), PushOf(Bits(2)), PushOf(Bits(3)),
               PushOf(Bits(4)), Op("pop", NoValue, 0, Bits(4))>>
  /\ <<cpu.x, cpu.y, cpu.z, cpu.t>> = <<Bits(3), Bits(2), Bits(1), Bits(1)>>

\* push(2^128 - 1); pop() at word size 16 returns 0xFFFF.
C26_WitnessMasked ==
  /\ PushThenPop
  /\ LastOps(2)[1].v = U128Max
  /\ op.ret = Bits(65535)

\* The last two operations invoked are a and b.
LastTwo(a, b) ==
  /\ Len(trace) >= 2
  /\ LastOps(2)[1].name = a
  /\ LastOps(2)[2].name = b

\* C27: roll_up() is the inverse of roll_down(): from any state roll_down()
\* then roll_up(), and roll_up() then roll_down(), restore x, y, z, t and
\* change nothing else.
C27_RollUpInvertsRollDown ==
  /\ roll_up(roll_down(cpu)) = cpu
  /\ roll_down(roll_up(cpu)) = cpu
  /\ op.name = "roll_down" => roll_up(cpu) = old
  /\ op.name = "roll_up" => roll_down(cpu) = old
  /\ (LastTwo("roll_down", "roll_up") \/ LastTwo("roll_up", "roll_down")) =>
       cpu = Replay(Len(trace) - 2)

\* roll_down(); roll_up() on the stack (x, y, z, t) = (3, 2, 1, 0).
C27_Witness ==
  /\ trace = <<PushOf(Bits(1)), PushOf(Bits(2)), PushOf(Bits(3)),
               Nullary("roll_down"), Nullary("roll_up")>>
  /\ <<old.x, old.y, old.z, old.t>> = <<Bits(2), Bits(1), Bits(0), Bits(3)>>
  /\ <<cpu.x, cpu.y, cpu.z, cpu.t>> = <<Bits(3), Bits(2), Bits(1), Bits(0)>>

\* roll_up(); roll_down() on the same stack.
C27_WitnessUpDown ==
  /\ trace = <<PushOf(Bits(1)), PushOf(Bits(2)), PushOf(Bits(3)),
               Nullary("roll_up"), Nullary("roll_down")>>
  /\ <<old.x, old.y, old.z, old.t>> = <<Bits(0), Bits(3), Bits(2), Bits(1)>>
  /\ <<cpu.x, cpu.y, cpu.z, cpu.t>> = <<Bits(3), Bits(2), Bits(1), Bits(0)>>

====
